---- MODULE Spec2Model ----
(***************************************************************************)
(* Model of the tree-processing engine of create_work_items.py:            *)
(* process_epics walking the Epic -> Feature -> Task plan, driving         *)
(* AzureDevOpsClient.find_existing_work_item / create_work_item and        *)
(* writing outcomes into a Summary.                                        *)
(***************************************************************************)
EXTENDS Integers, Sequences, FiniteSets, TLC

\* ------------------------------------------------------------------------ \*
\*  Bounds of the model
\* ------------------------------------------------------------------------ \*

MaxEpics == 2
MaxFeatures == 2
MaxTasks == 1
MaxNodes == 3
MaxRemoteId == 2
MaxMatches == 1

\* Python's None
None == 0

RemoteIds == 1..MaxRemoteId

\* ------------------------------------------------------------------------ \*
\*  Plan trees (the `epics` argument of process_epics)
\* ------------------------------------------------------------------------ \*

SeqsUpTo(S, n) == UNION {[1..k -> S] : k \in 0..n}

RECURSIVE SumSeq(_)
SumSeq(s) == IF s = <<>> THEN 0 ELSE Head(s) + SumSeq(Tail(s))

\* a shape gives, per epic and per feature, the number of tasks
NodeCount(shape) ==
    Len(shape)
    + SumSeq([e \in 1..Len(shape) |-> Len(shape[e])])
    + SumSeq([e \in 1..Len(shape) |-> SumSeq(shape[e])])

Shapes ==
    {s \in SeqsUpTo(SeqsUpTo(0..MaxTasks, MaxFeatures), MaxEpics) :
        NodeCount(s) <= MaxNodes}

\* the epic, feature and task paths of a shape
EpicPaths(shape) == {<<i>> : i \in 1..Len(shape)}

FeaturePaths(shape) ==
    UNION {{<<i, j>> : j \in 1..Len(shape[i])} : i \in 1..Len(shape)}

TaskPaths(shape) ==
    UNION {{<<n[1], n[2], k>> : k \in 1..shape[n[1]][n[2]]} : n \in FeaturePaths(shape)}

Paths(shape) == EpicPaths(shape) \cup FeaturePaths(shape) \cup TaskPaths(shape)

\* owner ids (e-mail addresses), numbered from 1 so that None is none of them
Alice == 1
Bob == 2

\* task.get("fields"): a map of extra fields, or None when absent
SomeFields == 1

\* local ids are the paths <<e>>, <<e, f>>, <<e, f, t>>: globally unique, as
\* validate_input requires; titles[p] is the title of the node at path p,
\* owners[e][f] the owner list of a feature and fields[e][f][t] the fields
\* entry of a task
MkOwnedPlan(shape, titles, owners, fields) ==
    [e \in 1..Len(shape) |->
        [id |-> <<e>>,
         title |-> titles[<<e>>],
         features |->
            [f \in 1..Len(shape[e]) |->
                [id |-> <<e, f>>,
                 title |-> titles[<<e, f>>],
                 ownerUserIds |-> owners[e][f],
                 tasks |-> [t \in 1..shape[e][f] |->
                              [id |-> <<e, f, t>>,
                               title |-> titles[<<e, f, t>>],
                               fields |-> fields[e][f][t]]]]]]]

\* every node has a title of its own
OwnTitles(shape) == [p \in Paths(shape) |-> p]

\* the plan in which every node has a title of its own, every feature has
\* the single owner Alice and no task has a fields entry
MkPlan(shape) ==
    MkOwnedPlan(shape, OwnTitles(shape),
                [i \in 1..Len(shape) |-> [j \in 1..Len(shape[i]) |-> <<Alice>>]],
                [i \in 1..Len(shape) |-> [j \in 1..Len(shape[i]) |->
                    [k \in 1..shape[i][j] |-> None]]])

\* ------------------------------------------------------------------------ \*
\*  AzureDevOpsClient: final answer of one logical call through _request
\* ------------------------------------------------------------------------ \*

\* success, the two authentication statuses, and 500 for every other
\* status >= 400; a 200 answer carries a well-formed JSON body
Statuses == {200, 401, 403, 500}

\* what _request hands back: a response with a status and a body (for the
\* WIQL query the list of matching ids, for a create the new id; an error
\* answer carries neither), or a requests.ConnectionError raised after the
\* retries
Response(status, workItems, id) ==
    [kind |-> "response", status |-> status, workItems |-> workItems, id |-> id,
     retry_after |-> None]

ConnectionError ==
    [kind |-> "ConnectionError", status |-> 0, workItems |-> <<>>, id |-> None,
     retry_after |-> None]

ErrorResponses == {Response(s, <<>>, None) : s \in Statuses \ {200}}

FindResponses ==
    {Response(200, w, None) : w \in SeqsUpTo(RemoteIds, MaxMatches)}
    \cup ErrorResponses \cup {ConnectionError}

CreateResponses ==
    {Response(200, <<>>, i) : i \in RemoteIds}
    \cup ErrorResponses \cup {ConnectionError}

\* outcome of a client method: a returned value or a raised exception
Returned(v) == [raised |-> FALSE, value |-> v, cls |-> "", status |-> 0]
Raised(c, s) == [raised |-> TRUE, value |-> None, cls |-> c, status |-> s]

find_existing_work_item(resp) ==
    IF resp.kind = "ConnectionError" THEN Raised("ConnectionError", 0)
    ELSE IF resp.status \in {401, 403} THEN Raised("AzureDevOpsError", resp.status)
    ELSE IF resp.status >= 400 THEN Raised("HTTPError", resp.status)
    ELSE IF resp.workItems # <<>> THEN Returned(resp.workItems[1])
    ELSE Returned(None)

create_work_item(resp) ==
    IF resp.kind = "ConnectionError" THEN Raised("ConnectionError", 0)
    ELSE IF resp.status \in {401, 403} THEN Raised("AzureDevOpsError", resp.status)
    ELSE IF resp.status >= 400 THEN Raised("AzureDevOpsError", resp.status)
    ELSE Returned(resp.id)

\* exception classes below requests.RequestException
IsRequestException(r) == r.cls \in {"HTTPError", "ConnectionError"}
IsAzureDevOpsError(r) == r.cls = "AzureDevOpsError"

\* `except (AzureDevOpsError, requests.RequestException) as exc:`
Caught(r) == IsAzureDevOpsError(r) \/ IsRequestException(r)

\* ------------------------------------------------------------------------ \*
\*  State
\* ------------------------------------------------------------------------ \*

VARIABLES
    epics,                  \* the plan tree (read-only)
    dry_run,
    skip_duplicate_check,
    pc,                     \* position inside process_epics
    e, f, t,                \* positions of the three for-loops
    owner,                  \* first owner id of the current feature
    epic_ado_id, feat_ado_id, task_ado_id,
    dry_counter,
    summary,                \* Summary: created, skipped, failed, failures
    log,                    \* logger lines written by Summary.record_*
    calls,                  \* calls issued on the client, in order
    raised,                 \* the exception that left process_epics, if any
    method,                 \* client method in progress: "find", "create" or ""
    rpc,                    \* position inside the client method
    attempt,                \* loop variable of _request
    answers,                \* what session.request gave, attempt by attempt
    sleeps,                 \* arguments of time.sleep, in order
    response,               \* what _request returned or raised
    result,                 \* what the client method returned or raised
    stage,                  \* position of the caller around process_epics
    args,                   \* the three strings given to build_config
    config,                 \* what build_config returned or raised
    data,                   \* the parsed plan given to validate_input
    errors,                 \* what validate_input returned
    run,                    \* 1 in the first run of a plan, 2 in its second
    remote0                 \* the remote work items when the current run began

vars == <<epics, dry_run, skip_duplicate_check, pc, e, f, t, owner,
          epic_ado_id, feat_ado_id, task_ado_id, dry_counter,
          summary, log, calls, raised,
          method, rpc, attempt, answers, sleeps, response, result,
          stage, args, config, data, errors, run, remote0>>

plan == <<epics, dry_run, skip_duplicate_check>>

\* the caller of process_epics: configuration and input validation
caller == <<stage, args, config, data, errors, run, remote0>>

\* one call of a client method, attempt by attempt
client == <<method, rpc, attempt, answers, sleeps, response, result>>

\* process_epics and its Summary
engine == <<owner, pc, e, f, t, epic_ado_id, feat_ado_id, task_ado_id,
            dry_counter, summary, log, calls, raised>>

\* ------------------------------------------------------------------------ \*
\*  Summary
\* ------------------------------------------------------------------------ \*

NewSummary == [created |-> 0, skipped |-> 0, failed |-> 0, failures |-> <<>>]

record_created(s) == [s EXCEPT !.created = @ + 1]
record_skipped(s) == [s EXCEPT !.skipped = @ + 1]
\* record_failed that puts the newest message first
record_failed_Prepend(s, local_id, r) ==
    [s EXCEPT !.failed = @ + 1,
              !.failures = <<[id |-> local_id, cls |-> r.cls, status |-> r.status]>> \o @]

record_failed(s, local_id, r) ==
    [s EXCEPT !.failed = @ + 1,
              !.failures = Append(@, [id |-> local_id, cls |-> r.cls, status |-> r.status])]

\* record_dry_run that counts the node as skipped
record_dry_run_CountsSkipped(s) == [s EXCEPT !.skipped = @ + 1]

record_dry_run(s) == [s EXCEPT !.created = @ + 1]

\* a CREATED, SKIPPED or FAILED line
LogLine(kind, local_id, ado_id) ==
    [kind |-> kind, id |-> local_id, ado_id |-> ado_id,
     assigned_to |-> None, parent_label |-> None]

\* the DRY-RUN line: "-> assignee" and "under parent" when given
DryRunLine(local_id, assigned_to, parent_label) ==
    [kind |-> "DRY-RUN", id |-> local_id, ado_id |-> None,
     assigned_to |-> assigned_to, parent_label |-> parent_label]

\* one call on the client: the request, the final answer on the wire and
\* the value the client method returned (None when it raised)
Call(op, local_id, assigned_to, parent_id, custom_fields, resp, r) ==
    [op |-> op, id |-> local_id, assigned_to |-> assigned_to,
     parent_id |-> parent_id, custom_fields |-> custom_fields,
     kind |-> resp.kind, status |-> resp.status, value |-> r.value]

\* ------------------------------------------------------------------------ \*
\*  process_epics
\* ------------------------------------------------------------------------ \*

\* no response yet
NoResponse ==
    [kind |-> "none", status |-> 0, workItems |-> <<>>, id |-> None,
     retry_after |-> None]

\* strings are sequences of characters
EmptyString == <<>>

\* build_config has not been called
NoConfig ==
    [raised |-> FALSE, org_url |-> EmptyString, project |-> EmptyString,
     pat |-> EmptyString]

\* no plan document
NoData == [assignmentStrategy |-> "", epics |-> <<>>]

\* the caller is not being followed: process_epics was called directly
CallerIdle ==
    /\ stage = "idle"
    /\ args = <<EmptyString, EmptyString, EmptyString>>
    /\ config = NoConfig
    /\ data = NoData
    /\ errors = <<>>
    /\ run = 1
    /\ remote0 = {}

\* no client method is being followed attempt by attempt
ClientIdle ==
    /\ method = ""
    /\ rpc = "idle"
    /\ attempt = 0
    /\ answers = <<>>
    /\ sleeps = <<>>
    /\ response = NoResponse
    /\ result = Returned(None)

Init ==
    /\ \E s \in Shapes : epics = MkPlan(s)
    /\ dry_run \in BOOLEAN
    /\ skip_duplicate_check \in BOOLEAN
    /\ pc = "epic_next"
    /\ e = 0 /\ f = 0 /\ t = 0
    /\ owner = None
    /\ epic_ado_id = None /\ feat_ado_id = None /\ task_ado_id = None
    /\ dry_counter = 0
    /\ summary = NewSummary
    /\ log = <<>>
    /\ calls = <<>>
    /\ raised = Returned(None)
    /\ ClientIdle
    /\ CallerIdle

epic == epics[e]
feature == epic.features[f]
task == feature.tasks[t]

DuplicateCheckEnabled_NoDryRunGuard == ~skip_duplicate_check

DuplicateCheckEnabled_IgnoresSkipFlag == ~dry_run

\* `if not skip_duplicate_check and not dry_run:`
DuplicateCheckEnabled == ~skip_duplicate_check /\ ~dry_run

\* for epic in epics:   (and `return summary` when the list is exhausted)
EpicNext ==
    /\ pc = "epic_next"
    /\ IF e < Len(epics)
       THEN /\ e' = e + 1
            /\ epic_ado_id' = None
            /\ pc' = "epic_dup"
       ELSE /\ pc' = "done"
            /\ UNCHANGED <<e, epic_ado_id>>
    /\ UNCHANGED <<plan, caller, client, owner, f, t, feat_ado_id, task_ado_id, dry_counter, summary,
                   log, calls, raised>>

\* epic duplicate check that forgets the id it found
EpicDuplicateCheck_ForgetsMatch ==
    /\ pc = "epic_dup"
    /\ IF DuplicateCheckEnabled
       THEN \E resp \in FindResponses :
              LET r == find_existing_work_item(resp) IN
              /\ calls' = Append(calls, Call("find", epic.id, None, None, None, resp, r))
              /\ IF ~r.raised
                 THEN /\ epic_ado_id' = None
                      /\ pc' = "epic_decide"
                      /\ UNCHANGED <<summary, log, raised>>
                 ELSE IF IsAzureDevOpsError(r) /\ r.status \notin {401, 403}
                 THEN /\ summary' = record_failed(summary, epic.id, r)
                      /\ log' = Append(log, LogLine("FAILED", epic.id, None))
                      /\ pc' = "epic_decide"
                      /\ UNCHANGED <<epic_ado_id, raised>>
                 ELSE /\ raised' = r
                      /\ pc' = "raised"
                      /\ UNCHANGED <<epic_ado_id, summary, log>>
       ELSE /\ pc' = "epic_decide"
            /\ UNCHANGED <<epic_ado_id, summary, log, calls, raised>>
    /\ UNCHANGED <<plan, caller, client, owner, e, f, t, feat_ado_id, task_ado_id, dry_counter>>

\* epic duplicate check: only AzureDevOpsError is caught here, 401/403 is
\* raised again, and the record_failed branch has no `continue`: it falls
\* through to the decision below with epic_ado_id still None
EpicDuplicateCheck ==
    /\ pc = "epic_dup"
    /\ IF DuplicateCheckEnabled
       THEN \E resp \in FindResponses :
              LET r == find_existing_work_item(resp) IN
              /\ calls' = Append(calls, Call("find", epic.id, None, None, None, resp, r))
              /\ IF ~r.raised
                 THEN /\ epic_ado_id' = r.value
                      /\ pc' = "epic_decide"
                      /\ UNCHANGED <<summary, log, raised>>
                 ELSE IF IsAzureDevOpsError(r) /\ r.status \notin {401, 403}
                 THEN /\ summary' = record_failed(summary, epic.id, r)
                      /\ log' = Append(log, LogLine("FAILED", epic.id, None))
                      /\ pc' = "epic_decide"
                      /\ UNCHANGED <<epic_ado_id, raised>>
                 ELSE /\ raised' = r
                      /\ pc' = "raised"
                      /\ UNCHANGED <<epic_ado_id, summary, log>>
       ELSE /\ pc' = "epic_decide"
            /\ UNCHANGED <<epic_ado_id, summary, log, calls, raised>>
    /\ UNCHANGED <<plan, caller, client, owner, e, f, t, feat_ado_id, task_ado_id, dry_counter>>

EpicSkipped ==
    /\ pc = "epic_decide"
    /\ epic_ado_id # None
    /\ summary' = record_skipped(summary)
    /\ log' = Append(log, LogLine("SKIPPED", epic.id, epic_ado_id))
    /\ f' = 0
    /\ pc' = "feat_next"
    /\ UNCHANGED <<plan, caller, client, owner, e, t, epic_ado_id, feat_ado_id, task_ado_id,
                   dry_counter, calls, raised>>

EpicDryRun ==
    /\ pc = "epic_decide"
    /\ epic_ado_id = None
    /\ dry_run
    /\ dry_counter' = dry_counter + 1
    /\ summary' = record_dry_run(summary)
    /\ log' = Append(log, DryRunLine(epic.id, None, None))
    /\ f' = 0
    /\ pc' = "feat_next"
    /\ UNCHANGED <<plan, caller, client, owner, e, t, epic_ado_id, feat_ado_id, task_ado_id, calls, raised>>

EpicCreate ==
    /\ pc = "epic_decide"
    /\ epic_ado_id = None
    /\ ~dry_run
    /\ \E resp \in CreateResponses :
         LET r == create_work_item(resp) IN
         /\ calls' = Append(calls, Call("create", epic.id, None, None, None, resp, r))
         /\ IF ~r.raised
            THEN /\ epic_ado_id' = r.value
                 /\ summary' = record_created(summary)
                 /\ log' = Append(log, LogLine("CREATED", epic.id, r.value))
                 /\ f' = 0
                 /\ pc' = "feat_next"
                 /\ UNCHANGED raised
            ELSE IF Caught(r)
            THEN /\ summary' = record_failed(summary, epic.id, r)
                 /\ log' = Append(log, LogLine("FAILED", epic.id, None))
                 /\ pc' = "epic_next"       \* continue
                 /\ UNCHANGED <<epic_ado_id, f, raised>>
            ELSE /\ raised' = r
                 /\ pc' = "raised"
                 /\ UNCHANGED <<epic_ado_id, f, summary, log>>
    /\ UNCHANGED <<plan, caller, client, owner, e, t, feat_ado_id, task_ado_id, dry_counter>>

FirstOwner_Last(feat) == feat.ownerUserIds[Len(feat.ownerUserIds)]

\* `owner = feature["ownerUserIds"][0]  # feature-owner: first email`
FirstOwner(feat) == feat.ownerUserIds[1]

\* for feature in epic["features"]:
FeatureNext ==
    /\ pc = "feat_next"
    /\ IF f < Len(epic.features)
       THEN /\ f' = f + 1
            /\ owner' = FirstOwner(epic.features[f + 1])
            /\ feat_ado_id' = None
            /\ pc' = "feat_dup"
       ELSE /\ pc' = "epic_next"
            /\ UNCHANGED <<f, owner, feat_ado_id>>
    /\ UNCHANGED <<plan, caller, client, e, t, epic_ado_id, task_ado_id, dry_counter, summary,
                   log, calls, raised>>

\* feature duplicate check: AzureDevOpsError and RequestException are caught
FeatureDuplicateCheck ==
    /\ pc = "feat_dup"
    /\ IF DuplicateCheckEnabled
       THEN \E resp \in FindResponses :
              LET r == find_existing_work_item(resp) IN
              /\ calls' = Append(calls, Call("find", feature.id, None, None, None, resp, r))
              /\ IF ~r.raised
                 THEN /\ feat_ado_id' = r.value
                      /\ pc' = "feat_decide"
                      /\ UNCHANGED <<summary, log, raised>>
                 ELSE IF Caught(r)
                 THEN /\ summary' = record_failed(summary, feature.id, r)
                      /\ log' = Append(log, LogLine("FAILED", feature.id, None))
                      /\ pc' = "feat_next"      \* continue
                      /\ UNCHANGED <<feat_ado_id, raised>>
                 ELSE /\ raised' = r
                      /\ pc' = "raised"
                      /\ UNCHANGED <<feat_ado_id, summary, log>>
       ELSE /\ pc' = "feat_decide"
            /\ UNCHANGED <<feat_ado_id, summary, log, calls, raised>>
    /\ UNCHANGED <<plan, caller, client, owner, e, f, t, epic_ado_id, task_ado_id, dry_counter>>

\* FeatureSkipped that treats a duplicate feature as finished, tasks included
FeatureSkipped_SkipsTasks ==
    /\ pc = "feat_decide"
    /\ feat_ado_id # None
    /\ summary' = record_skipped(summary)
    /\ log' = Append(log, LogLine("SKIPPED", feature.id, feat_ado_id))
    /\ pc' = "feat_next"
    /\ UNCHANGED <<plan, caller, client, owner, e, f, t, epic_ado_id, feat_ado_id, task_ado_id,
                   dry_counter, calls, raised>>

FeatureSkipped ==
    /\ pc = "feat_decide"
    /\ feat_ado_id # None
    /\ summary' = record_skipped(summary)
    /\ log' = Append(log, LogLine("SKIPPED", feature.id, feat_ado_id))
    /\ t' = 0
    /\ pc' = "task_next"
    /\ UNCHANGED <<plan, caller, client, owner, e, f, epic_ado_id, feat_ado_id, task_ado_id,
                   dry_counter, calls, raised>>

FeatureDryRun ==
    /\ pc = "feat_decide"
    /\ feat_ado_id = None
    /\ dry_run
    /\ dry_counter' = dry_counter + 1
    /\ summary' = record_dry_run(summary)
    /\ log' = Append(log, DryRunLine(feature.id, owner, epic.id))
    /\ t' = 0
    /\ pc' = "task_next"
    /\ UNCHANGED <<plan, caller, client, owner, e, f, epic_ado_id, feat_ado_id, task_ado_id, calls, raised>>

\* FeatureCreate with the `continue` of the except branch missing
FeatureCreate_NoContinue ==
    /\ pc = "feat_decide"
    /\ feat_ado_id = None
    /\ ~dry_run
    /\ \E resp \in CreateResponses :
         LET r == create_work_item(resp) IN
         /\ calls' = Append(calls, Call("create", feature.id, owner, epic_ado_id, None, resp, r))
         /\ IF ~r.raised
            THEN /\ feat_ado_id' = r.value
                 /\ summary' = record_created(summary)
                 /\ log' = Append(log, LogLine("CREATED", feature.id, r.value))
                 /\ t' = 0
                 /\ pc' = "task_next"
                 /\ UNCHANGED raised
            ELSE IF Caught(r)
            THEN /\ summary' = record_failed(summary, feature.id, r)
                 /\ log' = Append(log, LogLine("FAILED", feature.id, None))
                 /\ t' = 0
                 /\ pc' = "task_next"
                 /\ UNCHANGED <<feat_ado_id, raised>>
            ELSE /\ raised' = r
                 /\ pc' = "raised"
                 /\ UNCHANGED <<feat_ado_id, t, summary, log>>
    /\ UNCHANGED <<plan, caller, client, owner, e, f, epic_ado_id, task_ado_id, dry_counter>>

FeatureCreate ==
    /\ pc = "feat_decide"
    /\ feat_ado_id = None
    /\ ~dry_run
    /\ \E resp \in CreateResponses :
         LET r == create_work_item(resp) IN
         /\ calls' = Append(calls, Call("create", feature.id, owner, epic_ado_id, None, resp, r))
         /\ IF ~r.raised
            THEN /\ feat_ado_id' = r.value
                 /\ summary' = record_created(summary)
                 /\ log' = Append(log, LogLine("CREATED", feature.id, r.value))
                 /\ t' = 0
                 /\ pc' = "task_next"
                 /\ UNCHANGED raised
            ELSE IF Caught(r)
            THEN /\ summary' = record_failed(summary, feature.id, r)
                 /\ log' = Append(log, LogLine("FAILED", feature.id, None))
                 /\ pc' = "feat_next"       \* continue
                 /\ UNCHANGED <<feat_ado_id, t, raised>>
            ELSE /\ raised' = r
                 /\ pc' = "raised"
                 /\ UNCHANGED <<feat_ado_id, t, summary, log>>
    /\ UNCHANGED <<plan, caller, client, owner, e, f, epic_ado_id, task_ado_id, dry_counter>>

\* for task in feature["tasks"]:
TaskNext ==
    /\ pc = "task_next"
    /\ IF t < Len(feature.tasks)
       THEN /\ t' = t + 1
            /\ task_ado_id' = None
            /\ pc' = "task_dup"
       ELSE /\ pc' = "feat_next"
            /\ UNCHANGED <<t, task_ado_id>>
    /\ UNCHANGED <<plan, caller, client, owner, e, f, epic_ado_id, feat_ado_id, dry_counter, summary,
                   log, calls, raised>>

\* TaskDuplicateCheck with the `continue` of the except branch missing
TaskDuplicateCheck_NoContinue ==
    /\ pc = "task_dup"
    /\ IF DuplicateCheckEnabled
       THEN \E resp \in FindResponses :
              LET r == find_existing_work_item(resp) IN
              /\ calls' = Append(calls, Call("find", task.id, None, None, None, resp, r))
              /\ IF ~r.raised
                 THEN /\ task_ado_id' = r.value
                      /\ pc' = "task_decide"
                      /\ UNCHANGED <<summary, log, raised>>
                 ELSE IF Caught(r)
                 THEN /\ summary' = record_failed(summary, task.id, r)
                      /\ log' = Append(log, LogLine("FAILED", task.id, None))
                      /\ pc' = "task_decide"
                      /\ UNCHANGED <<task_ado_id, raised>>
                 ELSE /\ raised' = r
                      /\ pc' = "raised"
                      /\ UNCHANGED <<task_ado_id, summary, log>>
       ELSE /\ pc' = "task_decide"
            /\ UNCHANGED <<task_ado_id, summary, log, calls, raised>>
    /\ UNCHANGED <<plan, caller, client, owner, e, f, t, epic_ado_id, feat_ado_id, dry_counter>>

\* task duplicate check: AzureDevOpsError and RequestException are caught
TaskDuplicateCheck ==
    /\ pc = "task_dup"
    /\ IF DuplicateCheckEnabled
       THEN \E resp \in FindResponses :
              LET r == find_existing_work_item(resp) IN
              /\ calls' = Append(calls, Call("find", task.id, None, None, None, resp, r))
              /\ IF ~r.raised
                 THEN /\ task_ado_id' = r.value
                      /\ pc' = "task_decide"
                      /\ UNCHANGED <<summary, log, raised>>
                 ELSE IF Caught(r)
                 THEN /\ summary' = record_failed(summary, task.id, r)
                      /\ log' = Append(log, LogLine("FAILED", task.id, None))
                      /\ pc' = "task_next"      \* continue
                      /\ UNCHANGED <<task_ado_id, raised>>
                 ELSE /\ raised' = r
                      /\ pc' = "raised"
                      /\ UNCHANGED <<task_ado_id, summary, log>>
       ELSE /\ pc' = "task_decide"
            /\ UNCHANGED <<task_ado_id, summary, log, calls, raised>>
    /\ UNCHANGED <<plan, caller, client, owner, e, f, t, epic_ado_id, feat_ado_id, dry_counter>>

TaskSkipped ==
    /\ pc = "task_decide"
    /\ task_ado_id # None
    /\ summary' = record_skipped(summary)
    /\ log' = Append(log, LogLine("SKIPPED", task.id, task_ado_id))
    /\ pc' = "task_next"
    /\ UNCHANGED <<plan, caller, client, owner, e, f, t, epic_ado_id, feat_ado_id, task_ado_id,
                   dry_counter, calls, raised>>

TaskDryRun ==
    /\ pc = "task_decide"
    /\ task_ado_id = None
    /\ dry_run
    /\ dry_counter' = dry_counter + 1
    /\ summary' = record_dry_run(summary)
    /\ log' = Append(log, DryRunLine(task.id, owner, feature.id))
    /\ pc' = "task_next"
    /\ UNCHANGED <<plan, caller, client, owner, e, f, t, epic_ado_id, feat_ado_id, task_ado_id, calls, raised>>

\* TaskCreate that links the task to the epic instead of its feature
TaskCreate_ParentIsEpic ==
    /\ pc = "task_decide"
    /\ task_ado_id = None
    /\ ~dry_run
    /\ \E resp \in CreateResponses :
         LET r == create_work_item(resp) IN
         /\ calls' = Append(calls, Call("create", task.id, owner, epic_ado_id, task.fields, resp, r))
         /\ IF ~r.raised
            THEN /\ task_ado_id' = r.value
                 /\ summary' = record_created(summary)
                 /\ log' = Append(log, LogLine("CREATED", task.id, r.value))
                 /\ pc' = "task_next"
                 /\ UNCHANGED raised
            ELSE IF Caught(r)
            THEN /\ summary' = record_failed(summary, task.id, r)
                 /\ log' = Append(log, LogLine("FAILED", task.id, None))
                 /\ pc' = "task_next"
                 /\ UNCHANGED <<task_ado_id, raised>>
            ELSE /\ raised' = r
                 /\ pc' = "raised"
                 /\ UNCHANGED <<task_ado_id, summary, log>>
    /\ UNCHANGED <<plan, caller, client, owner, e, f, t, epic_ado_id, feat_ado_id, dry_counter>>

TaskCreate ==
    /\ pc = "task_decide"
    /\ task_ado_id = None
    /\ ~dry_run
    /\ \E resp \in CreateResponses :
         LET r == create_work_item(resp) IN
         /\ calls' = Append(calls, Call("create", task.id, owner, feat_ado_id, task.fields, resp, r))
         /\ IF ~r.raised
            THEN /\ task_ado_id' = r.value
                 /\ summary' = record_created(summary)
                 /\ log' = Append(log, LogLine("CREATED", task.id, r.value))
                 /\ pc' = "task_next"
                 /\ UNCHANGED raised
            ELSE IF Caught(r)
            THEN /\ summary' = record_failed(summary, task.id, r)
                 /\ log' = Append(log, LogLine("FAILED", task.id, None))
                 /\ pc' = "task_next"
                 /\ UNCHANGED <<task_ado_id, raised>>
            ELSE /\ raised' = r
                 /\ pc' = "raised"
                 /\ UNCHANGED <<task_ado_id, summary, log>>
    /\ UNCHANGED <<plan, caller, client, owner, e, f, t, epic_ado_id, feat_ado_id, dry_counter>>

Next ==
    \/ EpicNext \/ EpicDuplicateCheck \/ EpicSkipped \/ EpicDryRun \/ EpicCreate
    \/ FeatureNext \/ FeatureDuplicateCheck \/ FeatureSkipped \/ FeatureDryRun
    \/ FeatureCreate
    \/ TaskNext \/ TaskDuplicateCheck \/ TaskSkipped \/ TaskDryRun \/ TaskCreate

Spec == Init /\ [][Next]_vars

\* ------------------------------------------------------------------------ \*
\*  Vocabulary of the properties
\* ------------------------------------------------------------------------ \*

\* the local ids of all nodes of the plan
PlanNodes ==
    {<<i>> : i \in DOMAIN epics}
    \cup UNION {{<<i, j>> : j \in DOMAIN epics[i].features} : i \in DOMAIN epics}
    \cup UNION {UNION {{<<i, j, k>> : k \in DOMAIN epics[i].features[j].tasks} :
                       j \in DOMAIN epics[i].features} : i \in DOMAIN epics}

Parent(n) == SubSeq(n, 1, Len(n) - 1)

\* a is a proper ancestor of n
IsAncestor(a, n) == Len(a) < Len(n) /\ SubSeq(n, 1, Len(a)) = a

\* a comes before b in depth-first input order
Before(a, b) ==
    \/ IsAncestor(a, b)
    \/ \E i \in 1..3 :
          /\ i <= Len(a) /\ i <= Len(b)
          /\ a[i] < b[i]
          /\ \A j \in 1..(i - 1) : a[j] = b[j]

\* the nodes that follow n's subtree in traversal order
AfterSubtree(n) == {m \in PlanNodes : Before(n, m) /\ ~IsAncestor(n, m)}

IsAuthStatus(c) == c.kind = "response" /\ c.status \in {401, 403}

\* the call ended in a remote-API error (not 401/403) or a transport error
IsNodeFailure(c) ==
    \/ c.kind = "ConnectionError"
    \/ c.kind = "response" /\ c.status >= 400 /\ c.status \notin {401, 403}

CallsOf(n) == {i \in DOMAIN calls : calls[i].id = n}
LinesOf(n) == {i \in DOMAIN log : log[i].id = n}
FailuresOf(n) == {i \in DOMAIN summary.failures : summary.failures[i].id = n}

RecordedFailed(n) == \E i \in LinesOf(n) : log[i].kind = "FAILED"

\* ------------------------------------------------------------------------ \*
\*  C1
\* ------------------------------------------------------------------------ \*

\* C1: in a dry run, whatever skip_duplicate_check is, no call is issued on
\* the client, process_epics does not raise, skipped and failed stay 0, and
\* the returned summary has created equal to the number of nodes of the plan.
C1_DryRunCountsEveryNode ==
    dry_run =>
        /\ calls = <<>>
        /\ pc # "raised"
        /\ summary.skipped = 0
        /\ summary.failed = 0
        /\ summary.failures = <<>>
        /\ pc = "done" => summary.created = Cardinality(PlanNodes)

\* a finished dry run, duplicate check left enabled, over epic/feature/task
C1_Witness ==
    /\ dry_run /\ ~skip_duplicate_check
    /\ pc = "done"
    /\ <<1, 1, 1>> \in PlanNodes
    /\ summary.created = 3

\* ------------------------------------------------------------------------ \*
\*  C2
\* ------------------------------------------------------------------------ \*

LastCall == calls[Len(calls)]
LoopHead(n) == <<"epic_next", "feat_next", "task_next">>[Len(n)]

\* this step issues a create call that ends in a remote-API or transport error
C2_CreateFails ==
    /\ Len(calls') = Len(calls) + 1
    /\ calls'[Len(calls')].op = "create"
    /\ IsNodeFailure(calls'[Len(calls')])

C2_RecordsOneFailure ==
    LET n == calls'[Len(calls')].id IN
    /\ summary'.failed = summary.failed + 1
    /\ Len(summary'.failures) = Len(summary.failures) + 1
    /\ SubSeq(summary'.failures, 1, Len(summary.failures)) = summary.failures
    /\ summary'.failures[Len(summary'.failures)].id = n
    /\ summary'.created = summary.created
    /\ summary'.skipped = summary.skipped
    /\ pc' = LoopHead(n)
    /\ <<e, f, t>>' = <<e, f, t>>

\* after a failed create of n the next call, if any, is for the first node
\* behind n's subtree, and the run only returns when no such node is left
C2_GoesOnWithSibling ==
    (calls # <<>> /\ LastCall.op = "create" /\ IsNodeFailure(LastCall)) =>
        /\ Len(calls') > Len(calls) =>
              /\ calls'[Len(calls')].id \in AfterSubtree(LastCall.id)
              /\ \A m \in AfterSubtree(LastCall.id) :
                    m = calls'[Len(calls')].id \/ Before(calls'[Len(calls')].id, m)
        /\ pc' = "done" => AfterSubtree(LastCall.id) = {}

\* C2: a create call that fails with a remote-API error (status >= 400 other
\* than 401/403) or a transport error adds exactly one to failed and one
\* message for that node to failures, leaves created and skipped alone, and
\* the traversal goes on with the next sibling (the next node in order).
C2_CreateFailureIsPerNode ==
    [][(C2_CreateFails => C2_RecordsOneFailure) /\ C2_GoesOnWithSibling]_vars

\* the create of feature <<1, 1>> answered 500 and its sibling <<1, 2>> was
\* then created
C2_Witness ==
    \E i \in DOMAIN calls : \E j \in DOMAIN calls :
        /\ i < j
        /\ calls[i].op = "create" /\ calls[i].id = <<1, 1>> /\ calls[i].status = 500
        /\ calls[j].op = "create" /\ calls[j].id = <<1, 2>> /\ calls[j].status = 200
        /\ summary.failed = 1 /\ summary.created = 2

\* ------------------------------------------------------------------------ \*
\*  C3
\* ------------------------------------------------------------------------ \*

\* C3: no descendant of a node recorded as failed is ever attempted: no
\* lookup and no create call is issued for it, and it has no outcome line and
\* no entry in the failures list.
C3_FailedSubtreeNeverAttempted ==
    \A n \in PlanNodes : RecordedFailed(n) =>
        \A d \in PlanNodes : IsAncestor(n, d) =>
            /\ CallsOf(d) = {}
            /\ LinesOf(d) = {}
            /\ FailuresOf(d) = {}

\* feature <<1, 1>> failed, it has a task, and the run has returned
C3_Witness ==
    /\ pc = "done"
    /\ RecordedFailed(<<1, 1>>)
    /\ <<1, 1, 1>> \in PlanNodes
    /\ summary.failed = 1

\* ------------------------------------------------------------------------ \*
\*  C4 - C7: authentication failures and lookup failures
\* ------------------------------------------------------------------------ \*

\* C4: a duplicate-check lookup answered 401/403, at any level, aborts the
\* run at once: the error leaves process_epics, the lookup is the last call
\* ever issued and the node gets no per-node failure.
C4_LookupAuthFailureAborts ==
    \A i \in DOMAIN calls :
        (calls[i].op = "find" /\ IsAuthStatus(calls[i])) =>
            /\ i = Len(calls)
            /\ pc = "raised"
            /\ FailuresOf(calls[i].id) = {}

\* C5: a create call answered 401/403, at any level, aborts the run at once:
\* the error leaves process_epics, the create is the last call ever issued
\* and the node gets no per-node failure.
C5_CreateAuthFailureAborts ==
    \A i \in DOMAIN calls :
        (calls[i].op = "create" /\ IsAuthStatus(calls[i])) =>
            /\ i = Len(calls)
            /\ pc = "raised"
            /\ FailuresOf(calls[i].id) = {}

\* C6: a lookup that fails with anything but 401/403, at any level, is
\* recorded as exactly one failure of its node; the node is not created, its
\* subtree is not attempted and the run does not stop there.
C6_LookupFailureIsPerNode ==
    \A i \in DOMAIN calls :
        (calls[i].op = "find" /\ IsNodeFailure(calls[i])) =>
            LET n == calls[i].id IN
            /\ Cardinality(FailuresOf(n)) = 1
            /\ CallsOf(n) = {i}
            /\ \A d \in PlanNodes : IsAncestor(n, d) => CallsOf(d) = {}
            /\ ~(pc = "raised" /\ i = Len(calls))

\* C7: process_epics raises only when some remote call answered 401/403;
\* remote-API and transport errors never make it raise.
C7_OnlyAuthFailureRaises ==
    pc = "raised" => \E i \in DOMAIN calls : IsAuthStatus(calls[i])

\* ------------------------------------------------------------------------ \*
\*  C8
\* ------------------------------------------------------------------------ \*

Children(n) == {c \in PlanNodes : Parent(c) = n}

\* the lookup of the current node returned a remote id and the node is about
\* to be decided
C8_LookupFound ==
    /\ pc \in {"epic_decide", "feat_decide", "task_decide"}
    /\ calls # <<>>
    /\ LastCall.op = "find"
    /\ LastCall.value # None

C8_RecordedAsSkipped ==
    /\ summary'.skipped = summary.skipped + 1
    /\ summary'.created = summary.created
    /\ summary'.failed = summary.failed
    /\ summary'.failures = summary.failures
    /\ calls' = calls
    /\ log' = Append(log, LogLine("SKIPPED", LastCall.id, LastCall.value))

\* what the run has done about every node whose lookup returned an id
C8_ChildrenUnderFoundId ==
    \A i \in DOMAIN calls :
        (calls[i].op = "find" /\ calls[i].value # None) =>
            LET n == calls[i].id IN
            /\ CallsOf(n) = {i}
            /\ \A j \in DOMAIN calls :
                  (calls[j].op = "create" /\ calls[j].id \in Children(n)) =>
                      calls[j].parent_id = calls[i].value
            /\ pc = "done" => \A c \in Children(n) : CallsOf(c) # {}

\* C8: when the lookup of a node returns a remote id the node is recorded as
\* skipped (skipped + 1, created and failed unchanged), no create call is
\* issued for it, and its children are still processed, each child create
\* carrying the found id as parent id.
C8_DuplicateIsSkippedChildrenProceed ==
    /\ [](C8_ChildrenUnderFoundId)
    /\ [][C8_LookupFound => C8_RecordedAsSkipped]_vars

\* epic <<1>> was found as remote item 2 and its feature was created under 2
C8_Witness ==
    /\ pc = "done"
    /\ \E i \in DOMAIN calls : \E j \in DOMAIN calls :
          /\ calls[i].op = "find" /\ calls[i].id = <<1>> /\ calls[i].value = 2
          /\ calls[j].op = "create" /\ calls[j].id = <<1, 1>> /\ calls[j].status = 200
          /\ calls[j].parent_id = 2
    /\ summary.skipped = 1

\* ------------------------------------------------------------------------ \*
\*  C9
\* ------------------------------------------------------------------------ \*

\* the calls before call j in which node n obtained a remote id
ObtainedBefore(n, j) == {i \in DOMAIN calls : i < j /\ calls[i].id = n /\ calls[i].value # None}

\* C9: an epic create carries no parent id; a feature or task create carries
\* the remote id its parent obtained in this run (from the parent's lookup or
\* create), never an absent one.
C9_CreateCarriesParentId ==
    \A j \in DOMAIN calls : calls[j].op = "create" =>
        IF Len(calls[j].id) = 1
        THEN calls[j].parent_id = None
        ELSE /\ calls[j].parent_id # None
             /\ Cardinality(ObtainedBefore(Parent(calls[j].id), j)) = 1
             /\ \A i \in ObtainedBefore(Parent(calls[j].id), j) :
                   calls[j].parent_id = calls[i].value

\* epic created as 1, feature found as 2, task created under 2
C9_Witness ==
    \E i \in DOMAIN calls : \E j \in DOMAIN calls : \E k \in DOMAIN calls :
        /\ calls[i].op = "create" /\ calls[i].id = <<1>> /\ calls[i].value = 1
        /\ calls[j].op = "find" /\ calls[j].id = <<1, 1>> /\ calls[j].value = 2
        /\ calls[k].op = "create" /\ calls[k].id = <<1, 1, 1>> /\ calls[k].parent_id = 2

\* ------------------------------------------------------------------------ \*
\*  C10
\* ------------------------------------------------------------------------ \*

\* n is attempted: none of its ancestors failed
Attempted(n) == \A a \in PlanNodes : IsAncestor(a, n) => ~RecordedFailed(a)

LinesOfKinds(level, kinds) ==
    {i \in DOMAIN log : Len(log[i].id) = level /\ log[i].kind \in kinds}

Outcomes == {"CREATED", "DRY-RUN", "SKIPPED", "FAILED"}

\* C10: when process_epics returns, every attempted node has exactly one
\* outcome and every other node none, so that per level the outcomes number
\* the attempted nodes, and created, skipped and failed add up to them.
C10_OneOutcomePerAttemptedNode ==
    pc = "done" =>
        /\ \A n \in PlanNodes :
              Cardinality(LinesOf(n)) = IF Attempted(n) THEN 1 ELSE 0
        /\ \A level \in 1..3 :
              Cardinality(LinesOfKinds(level, Outcomes))
                  = Cardinality({n \in PlanNodes : Len(n) = level /\ Attempted(n)})
        /\ summary.created
              = Cardinality(UNION {LinesOfKinds(l, {"CREATED", "DRY-RUN"}) : l \in 1..3})
        /\ summary.skipped = Cardinality(UNION {LinesOfKinds(l, {"SKIPPED"}) : l \in 1..3})
        /\ summary.failed = Cardinality(UNION {LinesOfKinds(l, {"FAILED"}) : l \in 1..3})
        /\ summary.failed = Len(summary.failures)

\* a returned live run with one outcome of each kind: epic skipped, first
\* feature failed, second feature created
C10_Witness ==
    /\ pc = "done"
    /\ ~dry_run
    /\ summary.created = 1 /\ summary.skipped = 1 /\ summary.failed = 1
    /\ Cardinality(PlanNodes) = 3

\* ------------------------------------------------------------------------ \*
\*  C11
\* ------------------------------------------------------------------------ \*

\* the FAILED lines of the log, in order
RECURSIVE FailedLines(_)
FailedLines(l) ==
    IF l = <<>> THEN <<>>
    ELSE IF Head(l).kind = "FAILED" THEN <<Head(l).id>> \o FailedLines(Tail(l))
    ELSE FailedLines(Tail(l))

\* C11: processing is depth-first in input order. Calls never go back in
\* traversal order (a node's lookup comes before its create), outcomes are
\* recorded in strictly increasing traversal order, the outcome of a node is
\* recorded before any call for a later node, and the failures list holds
\* the failed nodes in that same order.
C11_DepthFirstInputOrder ==
    /\ \A i \in DOMAIN calls : \A j \in DOMAIN calls : i < j =>
          \/ Before(calls[i].id, calls[j].id)
          \/ calls[i].id = calls[j].id /\ calls[i].op = "find" /\ calls[j].op = "create"
    /\ \A i \in DOMAIN log : \A j \in DOMAIN log : i < j => Before(log[i].id, log[j].id)
    /\ \A j \in DOMAIN calls : j < Len(calls) /\ calls[j].id # LastCall.id =>
          LinesOf(calls[j].id) # {}
    /\ ~dry_run => \A i \in DOMAIN log : CallsOf(log[i].id) # {}
    /\ [i \in DOMAIN summary.failures |-> summary.failures[i].id] = FailedLines(log)

\* a feature and then its sibling failed, under an epic that was created, and
\* the run returned
C11_Witness ==
    /\ pc = "done"
    /\ Len(summary.failures) = 2
    /\ summary.failures[1].id = <<1, 1>>
    /\ summary.failures[2].id = <<1, 2>>
    /\ summary.created = 1

\* ---------------------------------------------------------------------------
\* Plans with owner lists and task fields
\* ---------------------------------------------------------------------------

\* the owner lists in which the features of `two` have two owners, Bob first,
\* and every other feature has Alice alone
OwnersOf(shape, two) ==
    [i \in 1..Len(shape) |-> [j \in 1..Len(shape[i]) |->
        IF <<i, j>> \in two THEN <<Bob, Alice>> ELSE <<Alice>>]]

\* the fields entries in which exactly the tasks of `with` have a fields map
FieldsOf(shape, with) ==
    [i \in 1..Len(shape) |-> [j \in 1..Len(shape[i]) |-> [k \in 1..shape[i][j] |->
        IF <<i, j, k>> \in with THEN SomeFields ELSE None]]]

\* process_epics called on a plan whose features have any owner lists and
\* whose tasks have a fields entry or none
InitOwners ==
    /\ \E shape \in Shapes :
          \E two \in SUBSET FeaturePaths(shape) : \E with \in SUBSET TaskPaths(shape) :
             epics = MkOwnedPlan(shape, OwnTitles(shape), OwnersOf(shape, two),
                                 FieldsOf(shape, with))
    /\ dry_run \in BOOLEAN
    /\ skip_duplicate_check \in BOOLEAN
    /\ pc = "epic_next"
    /\ e = 0 /\ f = 0 /\ t = 0
    /\ owner = None
    /\ epic_ado_id = None
    /\ feat_ado_id = None
    /\ task_ado_id = None
    /\ dry_counter = 0
    /\ summary = NewSummary
    /\ log = <<>>
    /\ calls = <<>>
    /\ raised = Returned(None)
    /\ ClientIdle
    /\ CallerIdle

\* the steps of process_epics against a service that answers every request
\* with 200 or 500
NextOwners ==
    /\ Next
    /\ calls' # calls => calls'[Len(calls')].kind = "response"
                          /\ calls'[Len(calls')].status \in {200, 500}

SpecOwners == InitOwners /\ [][NextOwners]_vars

FeatureAt(n) == epics[n[1]].features[n[2]]

\* the assignee the plan gives to node n: none for an epic, the first owner
\* of the feature itself, the first owner of the parent feature for a task
PlanAssignee(n) == IF Len(n) = 1 THEN None ELSE FeatureAt(n).ownerUserIds[1]

\* C12: the assignee passed to every create call and written on every dry-run
\* record is the first owner id of the feature itself (for a feature) or of the
\* parent feature (for a task, with or without a fields map); an epic is
\* created and dry-run recorded with no assignee.
C12_AssigneeIsFirstFeatureOwner ==
    /\ \A i \in DOMAIN calls :
          calls[i].op = "create" => calls[i].assigned_to = PlanAssignee(calls[i].id)
    /\ \A i \in DOMAIN log :
          log[i].kind = "DRY-RUN" => log[i].assigned_to = PlanAssignee(log[i].id)

\* a live run that created a feature with two owners and, under it, a task
\* with a fields map, both assigned to the first owner
C12_Witness ==
    /\ pc = "done"
    /\ ~dry_run
    /\ Len(epics) = 1
    /\ Len(epics[1].features) = 1
    /\ epics[1].features[1].ownerUserIds = <<Bob, Alice>>
    /\ \E i \in DOMAIN calls :
          /\ calls[i].op = "create" /\ calls[i].id = <<1, 1, 1>>
          /\ calls[i].custom_fields = SomeFields
          /\ calls[i].assigned_to = Bob
          /\ calls[i].status = 200
    /\ \E i \in DOMAIN calls :
          calls[i].op = "create" /\ calls[i].id = <<1, 1>> /\ calls[i].assigned_to = Bob
    /\ \E i \in DOMAIN calls :
          calls[i].op = "create" /\ calls[i].id = <<1>> /\ calls[i].assigned_to = None

\* ---------------------------------------------------------------------------
\* Summary on its own: recording operations in any order
\* ---------------------------------------------------------------------------

\* number of recording operations applied to one Summary
MaxRecords == 3

\* local ids handed to the recording operations
RecordIds == {<<1>>, <<1, 1>>}

\* errors handed to record_failed
RecordErrors == {Raised("AzureDevOpsError", 500), Raised("ConnectionError", 0)}

\* a fresh Summary; process_epics is not running
InitSummary ==
    /\ epics = <<>>
    /\ dry_run = FALSE
    /\ skip_duplicate_check = FALSE
    /\ pc = "done"
    /\ e = 0 /\ f = 0 /\ t = 0
    /\ owner = None
    /\ epic_ado_id = None
    /\ feat_ado_id = None
    /\ task_ado_id = None
    /\ dry_counter = 0
    /\ summary = NewSummary
    /\ log = <<>>
    /\ calls = <<>>
    /\ raised = Returned(None)
    /\ ClientIdle
    /\ CallerIdle

Recorded == summary.created + summary.skipped + summary.failed

RecordCreated ==
    /\ Recorded < MaxRecords
    /\ \E n \in RecordIds : \E id \in RemoteIds :
          /\ summary' = record_created(summary)
          /\ log' = Append(log, LogLine("CREATED", n, id))
    /\ UNCHANGED <<plan, caller, client, owner, pc, e, f, t, epic_ado_id, feat_ado_id, task_ado_id,
                   dry_counter, calls, raised>>

RecordSkipped ==
    /\ Recorded < MaxRecords
    /\ \E n \in RecordIds : \E id \in RemoteIds :
          /\ summary' = record_skipped(summary)
          /\ log' = Append(log, LogLine("SKIPPED", n, id))
    /\ UNCHANGED <<plan, caller, client, owner, pc, e, f, t, epic_ado_id, feat_ado_id, task_ado_id,
                   dry_counter, calls, raised>>

RecordFailed ==
    /\ Recorded < MaxRecords
    /\ \E n \in RecordIds : \E r \in RecordErrors :
          /\ summary' = record_failed(summary, n, r)
          /\ log' = Append(log, LogLine("FAILED", n, None))
    /\ UNCHANGED <<plan, caller, client, owner, pc, e, f, t, epic_ado_id, feat_ado_id, task_ado_id,
                   dry_counter, calls, raised>>

RecordDryRun ==
    /\ Recorded < MaxRecords
    /\ \E n \in RecordIds : \E a \in {None, Alice} :
          /\ summary' = record_dry_run(summary)
          /\ log' = Append(log, DryRunLine(n, a, None))
    /\ UNCHANGED <<plan, caller, client, owner, pc, e, f, t, epic_ado_id, feat_ado_id, task_ado_id,
                   dry_counter, calls, raised>>

NextSummary ==
    \/ RecordCreated
    \/ RecordSkipped
    \/ RecordFailed
    \/ RecordDryRun

SpecSummary == InitSummary /\ [][NextSummary]_vars

\* the counters named in `up` grow by one, the others stay
CountersStep(up) ==
    /\ summary'.created = summary.created + (IF "created" \in up THEN 1 ELSE 0)
    /\ summary'.skipped = summary.skipped + (IF "skipped" \in up THEN 1 ELSE 0)
    /\ summary'.failed = summary.failed + (IF "failed" \in up THEN 1 ELSE 0)

\* the effect of the recording operation that wrote the newest log line
C17_RecordStep ==
    Len(log') = Len(log) + 1 =>
        LET kind == log'[Len(log')].kind IN
        /\ kind \in {"CREATED", "DRY-RUN"} =>
              CountersStep({"created"}) /\ summary'.failures = summary.failures
        /\ kind = "SKIPPED" =>
              CountersStep({"skipped"}) /\ summary'.failures = summary.failures
        /\ kind = "FAILED" =>
              /\ CountersStep({"failed"})
              /\ Len(summary'.failures) = Len(summary.failures) + 1
              /\ SubSeq(summary'.failures, 1, Len(summary.failures)) = summary.failures

\* C17: every recording operation raises exactly one counter by one and leaves
\* the other two alone (record_created and record_dry_run: created;
\* record_skipped: skipped; record_failed: failed); only record_failed appends
\* to failures, one message per call, so failed always equals the length of
\* failures.
C17_OneCounterPerRecord ==
    /\ [](summary.failed = Len(summary.failures))
    /\ [][C17_RecordStep]_vars

\* a Summary that has recorded a dry-run, a skip and a failure
C17_Witness ==
    /\ summary.created = 1 /\ summary.skipped = 1 /\ summary.failed = 1
    /\ Len(summary.failures) = 1
    /\ \E i \in DOMAIN log : log[i].kind = "DRY-RUN"

\* ---------------------------------------------------------------------------
\* One client call, attempt by attempt: _request and the method around it
\* ---------------------------------------------------------------------------

\* `MAX_RETRIES = 3`
MAX_RETRIES == 3

\* largest Retry-After hint, in seconds
MaxRetryAfter == 2

\* Retry-After of a rate-limit answer: absent, or a number of seconds
Hints == {None} \cup (1..MaxRetryAfter)

RateLimited(hint) == [Response(429, <<>>, None) EXCEPT !.retry_after = hint]

\* `2**attempt`
RECURSIVE Pow2(_)
Pow2(n) == IF n = 0 THEN 1 ELSE 2 * Pow2(n - 1)

\* the wait that takes no notice of the Retry-After header
retry_after_IgnoresHint(resp, n) == Pow2(n)

\* `int(resp.headers.get("Retry-After", 2**attempt))`
retry_after(resp, n) == IF resp.retry_after = None THEN Pow2(n) ELSE resp.retry_after

\* a client method has just called _request; process_epics is not running
InitRequest ==
    /\ epics = <<>>
    /\ dry_run = FALSE
    /\ skip_duplicate_check = FALSE
    /\ pc = "done"
    /\ e = 0 /\ f = 0 /\ t = 0
    /\ owner = None
    /\ epic_ado_id = None
    /\ feat_ado_id = None
    /\ task_ado_id = None
    /\ dry_counter = 0
    /\ summary = NewSummary
    /\ log = <<>>
    /\ calls = <<>>
    /\ raised = Returned(None)
    /\ method \in {"find", "create"}
    /\ rpc = "attempt"
    /\ attempt = 0
    /\ answers = <<>>
    /\ sleeps = <<>>
    /\ response = NoResponse
    /\ result = Returned(None)
    /\ CallerIdle

\* `if resp.status_code == 429:` sleep, then `continue`; after the last
\* attempt the loop ends and `return resp` gives the rate-limit answer
AttemptRateLimited_NoSleep ==
    /\ rpc = "attempt"
    /\ \E hint \in Hints :
          /\ answers' = Append(answers, RateLimited(hint))
          /\ response' = RateLimited(hint)
          /\ sleeps' = sleeps
    /\ IF attempt = MAX_RETRIES
       THEN rpc' = "returned" /\ attempt' = attempt
       ELSE rpc' = "attempt" /\ attempt' = attempt + 1
    /\ UNCHANGED <<plan, caller, engine, method, result>>

AttemptRateLimited ==
    /\ rpc = "attempt"
    /\ \E hint \in Hints :
          /\ answers' = Append(answers, RateLimited(hint))
          /\ response' = RateLimited(hint)
          /\ sleeps' = Append(sleeps, retry_after(RateLimited(hint), attempt))
    /\ IF attempt = MAX_RETRIES
       THEN rpc' = "returned" /\ attempt' = attempt
       ELSE rpc' = "attempt" /\ attempt' = attempt + 1
    /\ UNCHANGED <<plan, caller, engine, method, result>>

\* `except requests.ConnectionError:` that gives up one attempt late
AttemptConnectionError_ExtraRetry ==
    /\ rpc = "attempt"
    /\ answers' = Append(answers, ConnectionError)
    /\ IF attempt = MAX_RETRIES + 1
       THEN /\ response' = ConnectionError
            /\ rpc' = "returned"
            /\ UNCHANGED <<attempt, sleeps>>
       ELSE /\ sleeps' = Append(sleeps, Pow2(attempt))
            /\ attempt' = attempt + 1
            /\ UNCHANGED <<response, rpc>>
    /\ UNCHANGED <<plan, caller, engine, method, result>>

\* `except requests.ConnectionError:` re-raise on the last attempt, else sleep
\* 2**attempt and go round
AttemptConnectionError ==
    /\ rpc = "attempt"
    /\ answers' = Append(answers, ConnectionError)
    /\ IF attempt = MAX_RETRIES
       THEN /\ response' = ConnectionError
            /\ rpc' = "returned"
            /\ UNCHANGED <<attempt, sleeps>>
       ELSE /\ sleeps' = Append(sleeps, Pow2(attempt))
            /\ attempt' = attempt + 1
            /\ UNCHANGED <<response, rpc>>
    /\ UNCHANGED <<plan, caller, engine, method, result>>

\* the answers that are not a rate-limit answer
FinalResponses == IF method = "find" THEN FindResponses ELSE CreateResponses

\* `return resp` that treats a 5xx answer as retryable
AttemptReturns_Retries5xx ==
    /\ rpc = "attempt"
    /\ \E resp \in FinalResponses \ {ConnectionError} :
          /\ answers' = Append(answers, resp)
          /\ response' = resp
          /\ IF resp.status >= 500 /\ attempt < MAX_RETRIES
             THEN /\ sleeps' = Append(sleeps, Pow2(attempt))
                  /\ attempt' = attempt + 1
                  /\ rpc' = "attempt"
             ELSE /\ rpc' = "returned"
                  /\ UNCHANGED <<attempt, sleeps>>
    /\ UNCHANGED <<plan, caller, engine, method, result>>

\* `return resp`: any answer with a status other than 429
AttemptReturns ==
    /\ rpc = "attempt"
    /\ \E resp \in FinalResponses \ {ConnectionError} :
          /\ answers' = Append(answers, resp)
          /\ response' = resp
    /\ rpc' = "returned"
    /\ UNCHANGED <<plan, caller, engine, method, attempt, sleeps, result>>

\* find_existing_work_item after `resp = self._request(...)`
FindExisting ==
    /\ rpc = "returned"
    /\ method = "find"
    /\ result' = find_existing_work_item(response)
    /\ rpc' = "done"
    /\ UNCHANGED <<plan, caller, engine, method, attempt, answers, sleeps, response>>

\* create_work_item after `resp = self._request(...)`
CreateWorkItem ==
    /\ rpc = "returned"
    /\ method = "create"
    /\ result' = create_work_item(response)
    /\ rpc' = "done"
    /\ UNCHANGED <<plan, caller, engine, method, attempt, answers, sleeps, response>>

NextRequest ==
    \/ AttemptRateLimited
    \/ AttemptConnectionError
    \/ AttemptReturns
    \/ FindExisting
    \/ CreateWorkItem

SpecRequest == InitRequest /\ [][NextRequest]_vars

IsRateLimited(a) == a.kind = "response" /\ a.status = 429
IsConnectionError(a) == a.kind = "ConnectionError"
IsSuccess(a) == a.kind = "response" /\ a.status = 200

\* the first k answers are all rate-limit answers / all connection errors
RateLimitedFirst(k) == Len(answers) >= k /\ \A i \in 1..k : IsRateLimited(answers[i])
ConnectionErrorFirst(k) == Len(answers) >= k /\ \A i \in 1..k : IsConnectionError(answers[i])

\* C13: k rate-limit answers (k <= 3) followed by a success make _request
\* return that success after exactly k waits and k + 1 attempts; connection
\* errors on the first four attempts make it raise the transport error after
\* exactly 4 attempts and 3 waits, and not before the fourth.
C13_RetryThenReturnOrRaise ==
    /\ \A k \in 0..MAX_RETRIES :
          (RateLimitedFirst(k) /\ Len(answers) > k /\ IsSuccess(answers[k + 1])) =>
              /\ rpc \in {"returned", "done"}
              /\ response = answers[k + 1]
              /\ Len(answers) = k + 1
              /\ Len(sleeps) = k
    /\ \A k \in 1..MAX_RETRIES :
          (ConnectionErrorFirst(k) /\ Len(answers) = k) =>
              rpc = "attempt" /\ Len(sleeps) = k
    /\ ConnectionErrorFirst(MAX_RETRIES + 1) =>
          /\ rpc \in {"returned", "done"}
          /\ IsConnectionError(response)
          /\ Len(answers) = MAX_RETRIES + 1
          /\ Len(sleeps) = MAX_RETRIES
          /\ rpc = "done" => result = Raised("ConnectionError", 0)

\* a lookup that was rate-limited twice, with and without a hint, and then
\* found a match
C13_Witness ==
    /\ rpc = "done"
    /\ method = "find"
    /\ Len(answers) = 3
    /\ answers[1] = RateLimited(None)
    /\ answers[2] = RateLimited(MaxRetryAfter)
    /\ IsSuccess(answers[3])
    /\ sleeps = <<1, MaxRetryAfter>>
    /\ result = Returned(1)

\* the attempts that were followed by another attempt
Retries(pred(_)) == Cardinality({i \in 1..(Len(answers) - 1) : pred(answers[i])})

\* C14: whatever the answers, one call through _request makes at most 4
\* attempts; only rate-limit answers and connection errors are retried, and
\* together they are retried at most 3 times.
C14_AtMostFourAttempts ==
    /\ Len(answers) <= MAX_RETRIES + 1
    /\ attempt <= MAX_RETRIES
    /\ \A i \in 1..(Len(answers) - 1) :
          IsRateLimited(answers[i]) \/ IsConnectionError(answers[i])
    /\ Retries(IsRateLimited) + Retries(IsConnectionError) <= MAX_RETRIES

\* a call whose retries were used by two rate-limit answers and one connection
\* error, and whose fourth attempt failed too
C14_Witness ==
    /\ rpc = "done"
    /\ Len(answers) = MAX_RETRIES + 1
    /\ Retries(IsRateLimited) = 2
    /\ Retries(IsConnectionError) = 1
    /\ IsConnectionError(answers[MAX_RETRIES + 1])
    /\ result = Raised("ConnectionError", 0)

\* an attempt has just received an HTTP response other than 429
GotFinalResponse ==
    /\ Len(answers') = Len(answers) + 1
    /\ answers'[Len(answers')].kind = "response"
    /\ answers'[Len(answers')].status # 429

\* C15: an attempt that receives a response with a status other than 429
\* makes _request return that response at once: no wait, no further attempt.
C15_OtherStatusReturnsAtOnce ==
    /\ [][GotFinalResponse =>
            /\ rpc' = "returned"
            /\ response' = answers'[Len(answers')]
            /\ sleeps' = sleeps
            /\ attempt' = attempt]_vars
    /\ [](\A i \in DOMAIN answers :
            (answers[i].kind = "response" /\ answers[i].status # 429) =>
                i = Len(answers) /\ rpc # "attempt")

\* a create answered 500 on the second attempt, after one connection error
C15_Witness ==
    /\ rpc = "done"
    /\ method = "create"
    /\ Len(answers) = 2
    /\ IsConnectionError(answers[1])
    /\ answers[2].status = 500
    /\ sleeps = <<1>>
    /\ result = Raised("AzureDevOpsError", 500)

\* C20: find_existing_work_item raises the authentication failure on a final
\* 401/403, the generic remote-API error (the kind create_work_item raises
\* for a status >= 400) carrying the status on any other non-success status,
\* the transport error on a connection failure that outlived the retries, and
\* returns the first match, or none, on success.
C20_LookupErrorKinds ==
    (rpc = "done" /\ method = "find") =>
        /\ IsConnectionError(response) => result = Raised("ConnectionError", 0)
        /\ (response.kind = "response" /\ response.status \in {401, 403}) =>
              result = Raised("AzureDevOpsError", response.status)
        /\ (response.kind = "response" /\ response.status >= 400
                /\ response.status \notin {401, 403}) =>
              /\ result = create_work_item(response)
              /\ result = Raised("AzureDevOpsError", response.status)
        /\ IsSuccess(response) =>
              result = IF response.workItems = <<>> THEN Returned(None)
                       ELSE Returned(response.workItems[1])

\* ---------------------------------------------------------------------------
\* Configuration: build_config
\* ---------------------------------------------------------------------------

\* longest input string
MaxStrLen == 2

\* a letter, whitespace, and the slash
Chars == {"a", " ", "/"}

Strings == SeqsUpTo(Chars, MaxStrLen)

\* str.rstrip(chars)
RECURSIVE rstrip(_, _)
rstrip(str, chars) ==
    IF str # <<>> /\ str[Len(str)] \in chars
    THEN rstrip(SubSeq(str, 1, Len(str) - 1), chars)
    ELSE str

\* str.lstrip(chars)
RECURSIVE lstrip(_, _)
lstrip(str, chars) ==
    IF str # <<>> /\ str[1] \in chars THEN lstrip(Tail(str), chars) ELSE str

\* str.strip(): whitespace off both ends
strip(str) == rstrip(lstrip(str, {" "}), {" "})

\* build_config: strip the three values, raise ValueError when one is empty,
\* then remove the trailing slashes of org_url
build_config(org_url, project, pat) ==
    LET values == [org_url |-> strip(org_url), project |-> strip(project),
                   pat |-> strip(pat)]
    IN  IF \E k \in DOMAIN values : values[k] = EmptyString
        THEN [NoConfig EXCEPT !.raised = TRUE]
        ELSE [raised |-> FALSE, org_url |-> rstrip(values.org_url, {"/"}),
              project |-> values.project, pat |-> values.pat]

\* process_epics is not running
EngineIdle ==
    /\ epics = <<>>
    /\ dry_run = FALSE
    /\ skip_duplicate_check = FALSE
    /\ pc = "done"
    /\ e = 0 /\ f = 0 /\ t = 0
    /\ owner = None
    /\ epic_ado_id = None
    /\ feat_ado_id = None
    /\ task_ado_id = None
    /\ dry_counter = 0
    /\ summary = NewSummary
    /\ log = <<>>
    /\ calls = <<>>
    /\ raised = Returned(None)

\* build_config is about to be called on any three strings
InitConfig ==
    /\ EngineIdle
    /\ ClientIdle
    /\ stage = "config"
    /\ args \in Strings \X Strings \X Strings
    /\ config = NoConfig
    /\ data = NoData
    /\ errors = <<>>
    /\ run = 1
    /\ remote0 = {}

\* `return build_config(...)`, and `sys.exit(2)` on ValueError
BuildConfig ==
    /\ stage = "config"
    /\ config' = build_config(args[1], args[2], args[3])
    /\ stage' = IF config'.raised THEN "exit" ELSE "configured"
    /\ UNCHANGED <<plan, engine, client, args, data, errors, run, remote0>>

NextConfig == BuildConfig

SpecConfig == InitConfig /\ [][NextConfig]_vars

\* C19: build_config either raises the configuration error or returns three
\* non-empty strings of which org_url has no trailing slash; it never returns
\* an empty value.
C19_ConfigIsCompleteOrRaises ==
    stage \in {"exit", "configured"} =>
        \/ config.raised
        \/ /\ config.org_url # EmptyString
           /\ config.project # EmptyString
           /\ config.pat # EmptyString
           /\ config.org_url[Len(config.org_url)] # "/"

\* ---------------------------------------------------------------------------
\* Input validation: validate_input and the caller's stop on errors
\* ---------------------------------------------------------------------------

\* local ids of a plan document: with fewer ids than nodes some id repeats
LocalIds == 1..MaxNodes

\* the assignmentStrategy key is missing from the metadata
Absent == "(absent)"

Strategies == {Absent, "feature-owner", "custom"}

\* a schema-conformant plan document of the given shape: ids[p] is the local
\* id of the node at path p, and the tasks of `assigned` carry assignedTo
MkData(shape, ids, assigned, strategy) ==
    [assignmentStrategy |-> strategy,
     epics |->
        [i \in 1..Len(shape) |->
            [id |-> ids[<<i>>],
             features |->
                [j \in 1..Len(shape[i]) |->
                    [id |-> ids[<<i, j>>],
                     tasks |->
                        [k \in 1..shape[i][j] |->
                            [id |-> ids[<<i, j, k>>],
                             assignedTo |-> <<i, j, k>> \in assigned]]]]]]]

ShapeOf(d) ==
    [i \in DOMAIN d.epics |->
        [j \in DOMAIN d.epics[i].features |-> Len(d.epics[i].features[j].tasks)]]

RECURSIVE Concat(_)
Concat(ss) == IF ss = <<>> THEN <<>> ELSE Head(ss) \o Concat(Tail(ss))

\* the nodes in the order of the three nested for-loops
FeatureWalk(feat) ==
    <<[id |-> feat.id, task |-> FALSE, assignedTo |-> FALSE]>> \o
    [k \in DOMAIN feat.tasks |->
        [id |-> feat.tasks[k].id, task |-> TRUE, assignedTo |-> feat.tasks[k].assignedTo]]

EpicWalk(ep) ==
    <<[id |-> ep.id, task |-> FALSE, assignedTo |-> FALSE]>> \o
    Concat([j \in DOMAIN ep.features |-> FeatureWalk(ep.features[j])])

Walk(d) == Concat([i \in DOMAIN d.epics |-> EpicWalk(d.epics[i])])

\* `if x["id"] in seen_ids: errors.append(f"Duplicate ID: {x['id']}")` over
\* the first n nodes of the walk
RECURSIVE DuplicateErrors(_, _)
DuplicateErrors(walk, n) ==
    IF n = 0 THEN <<>>
    ELSE DuplicateErrors(walk, n - 1) \o
         (IF \E m \in 1..(n - 1) : walk[m].id = walk[n].id
          THEN <<[kind |-> "Duplicate ID", id |-> walk[n].id]>>
          ELSE <<>>)

\* the strategy read without a default
assignment_strategy_NoDefault(d) == d.assignmentStrategy

\* `data["metadata"].get("assignmentStrategy", "feature-owner")`
assignment_strategy(d) ==
    IF d.assignmentStrategy = Absent THEN "feature-owner" ELSE d.assignmentStrategy

\* `if "assignedTo" in task: errors.append(...)` over all tasks
AssignedToErrors(walk) ==
    LET hit == SelectSeq(walk, LAMBDA x : x.task /\ x.assignedTo)
    IN  [m \in DOMAIN hit |-> [kind |-> "task.assignedTo is not allowed", id |-> hit[m].id]]

\* validate_input on a document that passes the schema validation
validate_input(d) ==
    DuplicateErrors(Walk(d), Len(Walk(d))) \o
    (IF assignment_strategy(d) = "feature-owner" THEN AssignedToErrors(Walk(d)) ELSE <<>>)

\* a parsed, schema-conformant plan document is about to be validated
InitValidate ==
    /\ EngineIdle
    /\ ClientIdle
    /\ stage = "validate"
    /\ args = <<EmptyString, EmptyString, EmptyString>>
    /\ config = NoConfig
    /\ \E shape \in Shapes : \E ids \in [Paths(shape) -> LocalIds] :
          \E assigned \in SUBSET TaskPaths(shape) : \E strategy \in Strategies :
             data = MkData(shape, ids, assigned, strategy)
    /\ errors = <<>>
    /\ run = 1
    /\ remote0 = {}

\* `errors = validate_input(data, schema_path)`; `if errors: ... sys.exit(2)`
ValidateInput ==
    /\ stage = "validate"
    /\ errors' = validate_input(data)
    /\ stage' = IF errors' # <<>> THEN "exit" ELSE "validated"
    /\ UNCHANGED <<plan, engine, client, args, config, data, run, remote0>>

\* `summary = process_epics(data["epics"], ...)`: the engine starts on the
\* validated plan, its nodes named by their paths
StartProcessing ==
    /\ stage = "validated"
    /\ stage' = "process"
    /\ epics' = MkPlan(ShapeOf(data))
    /\ dry_run' \in BOOLEAN
    /\ skip_duplicate_check' \in BOOLEAN
    /\ pc' = "epic_next"
    /\ UNCHANGED <<owner, e, f, t, epic_ado_id, feat_ado_id, task_ado_id,
                   dry_counter, summary, log, calls, raised>>
    /\ UNCHANGED <<client, args, config, data, errors, run, remote0>>

NextValidate ==
    \/ ValidateInput
    \/ StartProcessing

SpecValidate == InitValidate /\ [][NextValidate]_vars

\* the local id of the node at path p of the document
IdAt(d, p) ==
    IF Len(p) = 1 THEN d.epics[p[1]].id
    ELSE IF Len(p) = 2 THEN d.epics[p[1]].features[p[2]].id
    ELSE d.epics[p[1]].features[p[2]].tasks[p[3]].id

DataPaths == Paths(ShapeOf(data))

IdsDistinct == \A p \in DataPaths : \A q \in DataPaths : p # q => IdAt(data, p) # IdAt(data, q)

SomeTaskAssigned ==
    \E p \in DataPaths : Len(p) = 3 /\ data.epics[p[1]].features[p[2]].tasks[p[3]].assignedTo

FeatureOwnerStrategy == data.assignmentStrategy \in {Absent, "feature-owner"}

Validated == stage \in {"exit", "validated", "process"}

\* C18: for a schema-conformant plan validate_input returns no error exactly
\* when all local ids are pairwise distinct and, under the "feature-owner"
\* strategy (also when the strategy is absent), no task carries assignedTo;
\* a repeated id X gives an error "Duplicate ID: X"; and with a non-empty
\* list the run stops: process_epics is never started and no remote call is
\* made.
C18_ValidationGatesProcessing ==
    /\ [](Validated =>
            /\ errors = <<>> <=> (IdsDistinct /\ (FeatureOwnerStrategy => ~SomeTaskAssigned))
            /\ \A p \in DataPaths : \A q \in DataPaths :
                  (p # q /\ IdAt(data, p) = IdAt(data, q)) =>
                      \E m \in DOMAIN errors :
                          errors[m] = [kind |-> "Duplicate ID", id |-> IdAt(data, p)]
            /\ errors # <<>> => stage = "exit" /\ pc = "done" /\ calls = <<>>)
    /\ [][pc' = "epic_next" => errors = <<>> /\ stage = "validated"]_vars

\* a plan without a strategy, with a repeated id and a task carrying
\* assignedTo: both errors are reported and the run stops
C18_Witness ==
    /\ stage = "exit"
    /\ data.assignmentStrategy = Absent
    /\ ~IdsDistinct
    /\ SomeTaskAssigned
    /\ Len(errors) = 2
    /\ errors[1].kind = "Duplicate ID"
    /\ errors[2].kind = "task.assignedTo is not allowed"
    /\ pc = "done"

\* ---------------------------------------------------------------------------
\* Two live runs of one plan against a remote service that keeps what it is
\* given
\* ---------------------------------------------------------------------------

Titles == {"Plan", "Build"}

\* wit["epic"], wit["feature"], wit["task"]
TypeOf(p) == <<"Epic", "Feature", "Task">>[Len(p)]

TitleOf(p) ==
    IF Len(p) = 1 THEN epics[p[1]].title
    ELSE IF Len(p) = 2 THEN epics[p[1]].features[p[2]].title
    ELSE epics[p[1]].features[p[2]].tasks[p[3]].title

\* the create calls of the current run that succeeded
Created == {i \in DOMAIN calls : calls[i].op = "create" /\ calls[i].status = 200}

\* the remote work items: those of the start of the run and those created since
Store ==
    remote0 \cup
    {[id |-> calls[i].value, title |-> TitleOf(calls[i].id), type |-> TypeOf(calls[i].id)] :
        i \in Created}

\* the remote ids of the items with the title and type of node p
Matches(p) == {x.id : x \in {y \in Store : y.title = TitleOf(p) /\ y.type = TypeOf(p)}}

\* the service numbers new items upwards
NextRemoteId ==
    IF Store = {} THEN 1
    ELSE 1 + (CHOOSE m \in {x.id : x \in Store} : \A x \in Store : x.id <= m)

\* the service answers the call of this step truthfully and with success: a
\* lookup gives a match when there is one, a create gives the next id
Served ==
    calls' # calls =>
        LET c == calls'[Len(calls')] IN
        /\ c.kind = "response"
        /\ c.status = 200
        /\ IF c.op = "find"
           THEN IF Matches(c.id) = {} THEN c.value = None ELSE c.value \in Matches(c.id)
           ELSE c.value = NextRemoteId

\* a live run with duplicate check, against a service that holds nothing or
\* one item
InitRerun ==
    /\ \E shape \in Shapes : \E titles \in [Paths(shape) -> Titles] :
          epics = MkOwnedPlan(shape, titles, OwnersOf(shape, {}), FieldsOf(shape, {}))
    /\ dry_run = FALSE
    /\ skip_duplicate_check = FALSE
    /\ pc = "epic_next"
    /\ e = 0 /\ f = 0 /\ t = 0
    /\ owner = None
    /\ epic_ado_id = None /\ feat_ado_id = None /\ task_ado_id = None
    /\ dry_counter = 0
    /\ summary = NewSummary
    /\ log = <<>>
    /\ calls = <<>>
    /\ raised = Returned(None)
    /\ ClientIdle
    /\ stage = "idle"
    /\ args = <<EmptyString, EmptyString, EmptyString>>
    /\ config = NoConfig
    /\ data = NoData
    /\ errors = <<>>
    /\ run = 1
    /\ remote0 \in {{}} \cup
          {{[id |-> 1, title |-> title, type |-> TypeOf(p)]} :
              title \in Titles, p \in {<<1>>, <<1, 1>>, <<1, 1, 1>>}}

\* the steps of process_epics that a live run can take
LiveStep ==
    \/ EpicNext
    \/ EpicDuplicateCheck
    \/ EpicSkipped
    \/ EpicCreate
    \/ FeatureNext
    \/ FeatureDuplicateCheck
    \/ FeatureSkipped
    \/ FeatureCreate
    \/ TaskNext
    \/ TaskDuplicateCheck
    \/ TaskSkipped
    \/ TaskCreate

\* process_epics is called again on the same plan, with a new Summary, against
\* what the first run left on the service
Rerun ==
    /\ pc = "done"
    /\ run = 1
    /\ run' = 2
    /\ remote0' = Store
    /\ pc' = "epic_next"
    /\ e' = 0 /\ f' = 0 /\ t' = 0
    /\ owner' = None
    /\ epic_ado_id' = None /\ feat_ado_id' = None /\ task_ado_id' = None
    /\ dry_counter' = 0
    /\ summary' = NewSummary
    /\ log' = <<>>
    /\ calls' = <<>>
    /\ raised' = Returned(None)
    /\ UNCHANGED <<plan, client, stage, args, config, data, errors>>

NextRerun ==
    \/ LiveStep /\ Served
    \/ Rerun

SpecRerun == InitRerun /\ [][NextRerun]_vars

\* C16: after a live run with duplicate check in which every remote call
\* succeeded, a second live run of the same plan against what the first left
\* issues no create call, records every node as skipped with the remote id of
\* an existing item of its title and type, and leaves the remote items as
\* they were.
C16_SecondRunCreatesNothing ==
    run = 2 =>
        /\ \A i \in DOMAIN calls : calls[i].op = "find"
        /\ \A i \in DOMAIN log :
              /\ log[i].kind = "SKIPPED"
              /\ \E x \in remote0 :
                    /\ x.id = log[i].ado_id
                    /\ x.title = TitleOf(log[i].id)
                    /\ x.type = TypeOf(log[i].id)
        /\ Store = remote0
        /\ pc # "raised"
        /\ pc = "done" =>
              /\ \A n \in PlanNodes : Cardinality(LinesOf(n)) = 1
              /\ summary.skipped = Cardinality(PlanNodes)
              /\ summary.created = 0
              /\ summary.failed = 0

\* the second run of an epic with two features of one title has ended: the
\* first run created the epic and one feature
C16_Witness ==
    /\ run = 2
    /\ pc = "done"
    /\ Len(epics) = 1
    /\ Len(epics[1].features) = 2
    /\ epics[1].features[1].title = epics[1].features[2].title
    /\ Cardinality(remote0) = 2
    /\ summary.skipped = 3

\* ---------------------------------------------------------------------------
\* The waits of one client call
\* ---------------------------------------------------------------------------

\* C21: the wait taken after attempt number i (counted from 0 over all the
\* attempts of the call) lasts as long as the Retry-After hint when the attempt
\* got a rate-limit answer with a hint, and 2^i seconds otherwise: 1, 2, 4
\* seconds for connection errors, and from 1 second doubling per attempt for
\* rate-limit answers without a hint.
C21_WaitIsHintOrPowerOfTwo ==
    /\ Len(sleeps) <= Len(answers)
    /\ \A j \in DOMAIN sleeps :
          sleeps[j] = IF IsRateLimited(answers[j]) /\ answers[j].retry_after # None
                      THEN answers[j].retry_after
                      ELSE Pow2(j - 1)
    /\ ConnectionErrorFirst(MAX_RETRIES) => SubSeq(sleeps, 1, MAX_RETRIES) = <<1, 2, 4>>
    /\ (RateLimitedFirst(MAX_RETRIES)
          /\ \A j \in 1..MAX_RETRIES : answers[j].retry_after = None) =>
              SubSeq(sleeps, 1, MAX_RETRIES) = <<1, 2, 4>>

\* a call that waited for a hint, then 2 seconds after a connection error,
\* then 4 seconds after a rate-limit answer without a hint
C21_Witness ==
    /\ rpc = "done"
    /\ Len(answers) = 4
    /\ answers[1] = RateLimited(MaxRetryAfter)
    /\ IsConnectionError(answers[2])
    /\ answers[3] = RateLimited(None)
    /\ IsSuccess(answers[4])
    /\ sleeps = <<MaxRetryAfter, 2, 4>>

\* C23: every wait inside _request is followed by another attempt: a call
\* never sleeps after its last attempt, and the waits are always fewer than
\* the attempts, after rate-limit answers as after connection errors.
C23_NoWaitAfterLastAttempt ==
    rpc \in {"returned", "done"} => Len(sleeps) < Len(answers)

\* ---------------------------------------------------------------------------
\* Live runs: lookups and creates per node
\* ---------------------------------------------------------------------------

\* C22: in a live run with skip_duplicate_check set, no lookup is issued for
\* any node, skipped stays 0, and every attempted node goes straight to its
\* create call.
C22_NoLookupWhenCheckDisabled ==
    (~dry_run /\ skip_duplicate_check) =>
        /\ \A i \in DOMAIN calls : calls[i].op = "create"
        /\ summary.skipped = 0
        /\ \A i \in DOMAIN log : log[i].kind \in {"CREATED", "FAILED"}
        /\ \A n \in PlanNodes : Cardinality(CallsOf(n)) <= 1
        /\ \A i \in DOMAIN log : Cardinality(CallsOf(log[i].id)) = 1
        /\ pc = "epic_decide" => epic_ado_id = None /\ CallsOf(<<e>>) = {}
        /\ pc = "feat_decide" => feat_ado_id = None /\ CallsOf(<<e, f>>) = {}
        /\ pc = "task_decide" => task_ado_id = None /\ CallsOf(<<e, f, t>>) = {}
        /\ pc = "done" =>
              \A n \in PlanNodes :
                  Cardinality(CallsOf(n)) = IF Attempted(n) THEN 1 ELSE 0

\* a finished live run without duplicate check that created an epic, failed
\* on its first feature and created the second
C22_Witness ==
    /\ ~dry_run /\ skip_duplicate_check
    /\ pc = "done"
    /\ Len(calls) = 3
    /\ summary.created = 2 /\ summary.failed = 1 /\ summary.skipped = 0
    /\ RecordedFailed(<<1, 1>>)

\* the lookups and the creates issued for node n
FindsOf(n) == {i \in CallsOf(n) : calls[i].op = "find"}
CreatesOf(n) == {i \in CallsOf(n) : calls[i].op = "create"}

\* the lookup returned, and found nothing
FoundNothing(c) == c.kind = "response" /\ c.status = 200 /\ c.value = None

\* C24: in a live run with duplicate check, every node gets at most one lookup
\* and at most one create, the lookup first; a create is issued only after the
\* node's lookup returned no match, so a node whose lookup found a match or
\* failed is never created, and no node is recorded both failed and created.
C24_CreateOnlyAfterEmptyLookup ==
    (~dry_run /\ ~skip_duplicate_check) =>
        \A n \in PlanNodes :
            /\ Cardinality(FindsOf(n)) <= 1
            /\ Cardinality(CreatesOf(n)) <= 1
            /\ \A j \in CreatesOf(n) :
                  \E i \in FindsOf(n) : i < j /\ FoundNothing(calls[i])
            /\ (\E i \in FindsOf(n) : ~FoundNothing(calls[i])) => CreatesOf(n) = {}
            /\ ~(RecordedFailed(n) /\ \E i \in LinesOf(n) : log[i].kind = "CREATED")

\* a finished live run with duplicate check: the epic was looked up and
\* created, the lookup of its first feature failed, the second feature was
\* found
C24_Witness ==
    /\ ~dry_run /\ ~skip_duplicate_check
    /\ pc = "done"
    /\ Cardinality(FindsOf(<<1>>)) = 1 /\ Cardinality(CreatesOf(<<1>>)) = 1
    /\ \E i \in FindsOf(<<1, 1>>) : IsNodeFailure(calls[i])
    /\ CreatesOf(<<1, 1>>) = {}
    /\ \E i \in FindsOf(<<1, 2>>) : calls[i].value # None
    /\ CreatesOf(<<1, 2>>) = {}

\* ---------------------------------------------------------------------------
\* The remote items stay unique by type and title
\* ---------------------------------------------------------------------------

\* no two remote items have the same type and title
UniqueByTypeAndTitle(items) ==
    \A x \in items : \A y \in items : (x.type = y.type /\ x.title = y.title) => x = y

\* node p was created in this run under remote id x
CreatedAs(p, x) == \E i \in CreatesOf(p) : calls[i].status = 200 /\ calls[i].value = x

\* C25: with duplicate check and a service whose lookups see the earlier
\* creates, remote items that are unique by type and title before a live run
\* stay so after every step of it, also when the plan repeats a title within
\* one type: the later node is then recorded as skipped with the id of the
\* earlier one and is not created.
C25_RemoteItemsStayUnique ==
    /\ UniqueByTypeAndTitle(remote0)
    /\ UniqueByTypeAndTitle(Store)
    /\ \A p \in PlanNodes : \A q \in PlanNodes :
          (/\ Before(p, q)
           /\ TypeOf(p) = TypeOf(q)
           /\ TitleOf(p) = TitleOf(q)
           /\ LinesOf(q) # {}) =>
              /\ CreatesOf(q) = {}
              /\ \A x \in RemoteIds : CreatedAs(p, x) =>
                    \A i \in LinesOf(q) : log[i].kind = "SKIPPED" /\ log[i].ado_id = x

\* the first run of an epic with two features of one title has ended: the
\* first feature was created, the second skipped with the id of the first
C25_Witness ==
    /\ run = 1
    /\ pc = "done"
    /\ remote0 = {}
    /\ Len(epics) = 1
    /\ Len(epics[1].features) = 2
    /\ epics[1].features[1].title = epics[1].features[2].title
    /\ CreatedAs(<<1, 1>>, 2)
    /\ \E i \in LinesOf(<<1, 2>>) : log[i].kind = "SKIPPED" /\ log[i].ado_id = 2
    /\ Cardinality(Store) = 2

====
